---- MODULE Spec2Model ----
(***************************************************************************)
(* Model of analytics.py: the sales-export analyser of the dashboard.      *)
(*                                                                         *)
(* A run of the command-line entry point is a small state machine: the     *)
(* argument check, the ingestion and aggregation of one or two files, the  *)
(* printing of the text report and, in single-file mode, the writing of    *)
(* index.html.  The aggregation, comparison and rendering functions are    *)
(* operators, computed the way pandas and the Python code compute them.    *)
(*                                                                         *)
(* Conventions:                                                            *)
(*  - money is an integer amount (the smallest currency unit), so that a   *)
(*    sum does not depend on the order of its terms;                       *)
(*  - a date is a day number, a timestamp a pair <<day, hour>>;            *)
(*  - a missing cell is the value NaN, as pandas reads an empty cell;      *)
(*  - Python's None / an optional value is a sequence of length 0 or 1;    *)
(*  - a quotient is the pair [num, den]; den = 0 is a division by zero.    *)
(***************************************************************************)
EXTENDS Integers, Sequences, FiniteSets, TLC

VARIABLES
    argv,        \* sys.argv: the script name followed by the path arguments
    disk,        \* the input files: path -> [ok, rows]
    pc,          \* position of the run in __main__
    reads,       \* the paths handed to pd.read_excel so far, in order
    data,        \* the aggregate structure of the new file (optional)
    comparison,  \* the result of compare_files (optional)
    stdout,      \* what has been printed, in order
    html,        \* index.html: [state, content]
    exit_code    \* the process exit status (optional)

vars == <<argv, disk, pc, reads, data, comparison, stdout, html, exit_code>>

-----------------------------------------------------------------------------
(* Bounds of the model *)

MaxRows == 2
MaxPaid == 2
MaxDays == 8
MaxTriples == 6

(* Constants of the program *)

ReportTopUtm == 5
ReportLastDays == 7
ChartTopUtm == 5
TableTopUtm == 10

-----------------------------------------------------------------------------
(* Values *)

NaN == "NaN"
None == <<>>
Some(x) == <<x>>

Min(a, b) == IF a <= b THEN a ELSE b
Max(a, b) == IF a >= b THEN a ELSE b

\* Python's seq[:n] and seq[-n:]
Head_n(seq, n) == SubSeq(seq, 1, Min(n, Len(seq)))
Tail_n(seq, n) == SubSeq(seq, Max(1, Len(seq) - n + 1), Len(seq))

\* Every string of the model, in Python's string order
Alphabet ==
    << "direct", "email", "facebook", "google", "instagram", "launch",
       "newsletter", "social", "story", "tiktok", "twitter", "whatsapp" >>

Rank(s) == CHOOSE i \in 1..Len(Alphabet) : Alphabet[i] = s

StrLess(a, b) == Rank(a) < Rank(b)

\* tuple comparison of two (source, medium, content) keys
TripleLess(a, b) ==
    \/ StrLess(a[1], b[1])
    \/ a[1] = b[1] /\ StrLess(a[2], b[2])
    \/ a[1] = b[1] /\ a[2] = b[2] /\ StrLess(a[3], b[3])

IntLess(a, b) == a < b

\* The elements of a finite set of integers, strings or triples in
\* increasing order: the order in which groupby returns its group keys
SortedInts(S) ==
    [p \in 1..Cardinality(S) |->
        CHOOSE k \in S : Cardinality({x \in S : IntLess(x, k)}) = p - 1]
SortedStrings(S) ==
    [p \in 1..Cardinality(S) |->
        CHOOSE k \in S : Cardinality({x \in S : StrLess(x, k)}) = p - 1]
SortedTriples(S) ==
    [p \in 1..Cardinality(S) |->
        CHOOSE k \in S : Cardinality({x \in S : TripleLess(x, k)}) = p - 1]

RECURSIVE SumSeq(_)
SumSeq(s) == IF s = <<>> THEN 0 ELSE Head(s) + SumSeq(Tail(s))

Column(rows, f) == [i \in 1..Len(rows) |-> rows[i][f]]

isna(v) == v = NaN

-----------------------------------------------------------------------------
(* analyze_sales *)

\* df['Payment date (UTC)'].dt.date: the timestamp truncated to its day
dt_date(ts) == ts[1]

\* df['Date'] = ...: every row gets its calendar date
WithDate(rows) ==
    [i \in 1..Len(rows) |->
        [Order |-> rows[i].Order, Paid |-> rows[i].Paid,
         Tickets |-> rows[i].Tickets, PaymentDate |-> rows[i].PaymentDate,
         utm_source |-> rows[i].utm_source, utm_medium |-> rows[i].utm_medium,
         utm_content |-> rows[i].utm_content,
         utm_campaign |-> rows[i].utm_campaign,
         Date |-> dt_date(rows[i].PaymentDate)]]

\* total_sales / total_tickets if total_tickets > 0 else 0
Quotient(a, b) == [num |-> a, den |-> b]
Zero == [num |-> 0, den |-> 1]
\* the quotient without its guard
AvgTicket_Unguarded(total_sales, total_tickets) ==
    Quotient(total_sales, total_tickets)

AvgTicket(total_sales, total_tickets) ==
    IF total_tickets > 0 THEN Quotient(total_sales, total_tickets) ELSE Zero

Summary(df) ==
    LET total_sales == SumSeq(Column(df, "Paid"))
        total_tickets == SumSeq(Column(df, "Tickets"))
        total_orders == Len(df)
    IN  [total_sales |-> total_sales,
         total_tickets |-> total_tickets,
         total_orders |-> total_orders,
         avg_ticket |-> AvgTicket(total_sales, total_tickets)]

\* groupby('Date'): every row of the model carries its payment timestamp,
\* so every row has a key; DateGroup is the rows of one group, in file order
DateKey(r) == r.Date
DateGroup(df, k) == SelectSeq(df, LAMBDA r : DateKey(r) = k)
DateKeys(df) == {DateKey(df[i]) : i \in 1..Len(df)}

\* groupby([...]) with its default dropna=True: a row whose key has a
\* missing component belongs to no group
TripleKey(r) == <<r.utm_source, r.utm_medium, r.utm_content>>
TripleGroup(df, k) == SelectSeq(df, LAMBDA r : TripleKey(r) = k)
TripleKeys(df) ==
    {TripleKey(df[i]) : i \in
        {j \in 1..Len(df) : /\ ~isna(df[j].utm_source)
                            /\ ~isna(df[j].utm_medium)
                            /\ ~isna(df[j].utm_content)}}

CampaignKey(r) == r.utm_campaign
CampaignGroup(df, k) == SelectSeq(df, LAMBDA r : CampaignKey(r) = k)
CampaignKeys(df) ==
    {CampaignKey(df[i]) : i \in {j \in 1..Len(df) : ~isna(df[j].utm_campaign)}}

\* sort_values('Revenue', ascending=False): entries of equal revenue keep
\* their order
SortByRevenueDesc(seq) ==
    LET Before(j, i) == \/ seq[j].Revenue > seq[i].Revenue
                        \/ seq[j].Revenue = seq[i].Revenue /\ j < i
        Pos(i) == 1 + Cardinality({j \in 1..Len(seq) : Before(j, i)})
    IN  [p \in 1..Len(seq) |-> seq[CHOOSE i \in 1..Len(seq) : Pos(i) = p]]

\* the daily rollup with 'Paid': 'first' in place of 'Paid': 'sum'
Daily_FirstPaid(df) ==
    LET keys == SortedInts(DateKeys(df))
    IN  [p \in 1..Len(keys) |->
            LET g == DateGroup(df, keys[p])
            IN  [Date |-> keys[p],
                 Revenue |-> g[1].Paid,
                 Tickets |-> SumSeq(Column(g, "Tickets")),
                 Orders |-> Len(g)]]

Daily(df) ==
    LET keys == SortedInts(DateKeys(df))
    IN  [p \in 1..Len(keys) |->
            LET g == DateGroup(df, keys[p])
            IN  [Date |-> keys[p],
                 Revenue |-> SumSeq(Column(g, "Paid")),
                 Tickets |-> SumSeq(Column(g, "Tickets")),
                 Orders |-> Len(g)]]

\* the attribution rollup without its sort_values
UtmAnalysis_Unsorted(df) ==
    LET keys == SortedTriples(TripleKeys(df))
    IN  [p \in 1..Len(keys) |->
            LET g == TripleGroup(df, keys[p])
            IN  [Source |-> keys[p][1],
                 Medium |-> keys[p][2],
                 Content |-> keys[p][3],
                 Revenue |-> SumSeq(Column(g, "Paid")),
                 Tickets |-> SumSeq(Column(g, "Tickets")),
                 Orders |-> Len(g)]]

UtmAnalysis(df) ==
    LET keys == SortedTriples(TripleKeys(df))
        grouped ==
            [p \in 1..Len(keys) |->
                LET g == TripleGroup(df, keys[p])
                IN  [Source |-> keys[p][1],
                     Medium |-> keys[p][2],
                     Content |-> keys[p][3],
                     Revenue |-> SumSeq(Column(g, "Paid")),
                     Tickets |-> SumSeq(Column(g, "Tickets")),
                     Orders |-> Len(g)]]
    IN  SortByRevenueDesc(grouped)

CampaignAnalysis(df) ==
    LET keys == SortedStrings(CampaignKeys(df))
        grouped ==
            [p \in 1..Len(keys) |->
                LET g == CampaignGroup(df, keys[p])
                IN  [Campaign |-> keys[p],
                     Revenue |-> SumSeq(Column(g, "Paid")),
                     Tickets |-> SumSeq(Column(g, "Tickets")),
                     Orders |-> Len(g)]]
    IN  SortByRevenueDesc(grouped)

\* analyze_sales on the rows pd.read_excel returned
analyze_sales(rows) ==
    LET df == WithDate(rows)
    IN  [summary |-> Summary(df),
         daily |-> Daily(df),
         utm |-> UtmAnalysis(df),
         campaigns |-> CampaignAnalysis(df),
         raw_data |-> df]

-----------------------------------------------------------------------------
(* compare_files *)

OrderIds(rows) == {rows[i].Order : i \in 1..Len(rows)}

\* new_orders - old_orders on the two sets of order identifiers
NewSalesOrders(old_rows, new_rows) == OrderIds(new_rows) \ OrderIds(old_rows)

\* list(a_set): the elements once each, in an order the set does not fix
ListsOf(S) ==
    {l \in [1..Cardinality(S) -> S] : {l[i] : i \in 1..Cardinality(S)} = S}

\* the sales delta floored at zero
SalesDiff_Clamped(old_summary, new_summary) ==
    Max(0, new_summary.total_sales - old_summary.total_sales)

SalesDiff(old_summary, new_summary) ==
    new_summary.total_sales - old_summary.total_sales
TicketsDiff(old_summary, new_summary) ==
    new_summary.total_tickets - old_summary.total_tickets
OrdersDiff(old_summary, new_summary) ==
    new_summary.total_orders - old_summary.total_orders

\* the comparison dict, given the rows of the two files and the list that
\* list(new_sales_orders) produced
Comparison(old_rows, new_rows, new_orders) ==
    LET old_data == analyze_sales(old_rows)
        new_data == analyze_sales(new_rows)
    IN  [sales_diff |-> SalesDiff(old_data.summary, new_data.summary),
         tickets_diff |-> TicketsDiff(old_data.summary, new_data.summary),
         orders_diff |-> OrdersDiff(old_data.summary, new_data.summary),
         new_orders |-> new_orders,
         old_summary |-> old_data.summary,
         new_summary |-> new_data.summary]

-----------------------------------------------------------------------------
(* generate_report: the report is the sequence of its lines *)

Line(section, kind, vals) == [section |-> section, kind |-> kind, vals |-> vals]

\* Python's "x or default": only an empty string is replaced (NaN is truthy)
OrDefault(v, default) == IF v = "" THEN default ELSE v

BannerBlock ==
    << Line("banner", "rule", <<>>), Line("banner", "title", <<>>),
       Line("banner", "rule", <<>>), Line("banner", "blank", <<>>) >>

SummaryBlock(s) ==
    << Line("summary", "header", <<>>), Line("summary", "rule", <<>>),
       Line("summary", "total_sales", <<s.total_sales>>),
       Line("summary", "total_tickets", <<s.total_tickets>>),
       Line("summary", "total_orders", <<s.total_orders>>),
       Line("summary", "avg_ticket", <<s.avg_ticket>>),
       Line("summary", "blank", <<>>) >>

\* "if comparison:" - a comparison dict is never empty, so it is true
\* exactly when a comparison was passed
ComparisonBlock(cmp) ==
    IF cmp = None THEN <<>>
    ELSE LET c == cmp[1]
         IN  << Line("comparison", "header", <<>>),
                Line("comparison", "rule", <<>>),
                Line("comparison", "sales", <<c.sales_diff, c.orders_diff>>),
                Line("comparison", "tickets", <<c.tickets_diff>>),
                Line("comparison", "new_ids", <<Len(c.new_orders)>>),
                Line("comparison", "blank", <<>>) >>

\* for i, utm in enumerate(data['utm'][:5], 1): three lines per entry
UtmBlock(utm) ==
    LET top == Head_n(utm, ReportTopUtm)
        EntryLine(k) ==
            LET i == ((k - 1) \div 3) + 1
                u == top[i]
            IN  CASE (k - 1) % 3 = 0 ->
                        Line("utm", "entry",
                             <<i, OrDefault(u.Source, "Direct"),
                               OrDefault(u.Medium, "none"),
                               OrDefault(u.Content, "-")>>)
                  [] (k - 1) % 3 = 1 ->
                        Line("utm", "totals", <<u.Revenue, u.Tickets, u.Orders>>)
                  [] OTHER -> Line("utm", "blank", <<>>)
    IN  << Line("utm", "header", <<>>), Line("utm", "rule", <<>>) >>
        \o [k \in 1..(3 * Len(top)) |-> EntryLine(k)]

\* the daily section with data['daily'][:7]
DailyBlock_First(daily) ==
    LET first == Head_n(daily, ReportLastDays)
    IN  << Line("daily", "header", <<>>), Line("daily", "rule", <<>>) >>
        \o [k \in 1..Len(first) |->
               Line("daily", "entry",
                    <<first[k].Date, first[k].Revenue, first[k].Tickets>>)]

\* for day in data['daily'][-7:]
DailyBlock(daily) ==
    LET last == Tail_n(daily, ReportLastDays)
    IN  << Line("daily", "header", <<>>), Line("daily", "rule", <<>>) >>
        \o [k \in 1..Len(last) |->
               Line("daily", "entry",
                    <<last[k].Date, last[k].Revenue, last[k].Tickets>>)]

FooterBlock == << Line("footer", "blank", <<>>), Line("footer", "rule", <<>>) >>

generate_report(d, cmp) ==
    BannerBlock \o SummaryBlock(d.summary) \o ComparisonBlock(cmp)
        \o UtmBlock(d.utm) \o DailyBlock(d.daily) \o FooterBlock

-----------------------------------------------------------------------------
(* update_dashboard_html: the document is the record of what it embeds *)

\* str(d['Date'])
DateStr(d) == [iso |-> d]

\* the dates array cut to the chart's five entries
DailyDates_Top(d) ==
    LET top == Head_n(d.daily, ChartTopUtm)
    IN  [i \in 1..Len(top) |-> DateStr(top[i].Date)]

DailyDates(d) == [i \in 1..Len(d.daily) |-> DateStr(d.daily[i].Date)]
DailyRevenue(d) == [i \in 1..Len(d.daily) |-> d.daily[i].Revenue]
DailyTickets(d) == [i \in 1..Len(d.daily) |-> d.daily[i].Tickets]

UtmLabels(d) ==
    LET top == Head_n(d.utm, ChartTopUtm)
    IN  [i \in 1..Len(top) |-> OrDefault(top[i].Source, "Direct")]
UtmValues(d) ==
    LET top == Head_n(d.utm, ChartTopUtm)
    IN  [i \in 1..Len(top) |-> top[i].Revenue]

UtmTable(d) ==
    LET top == Head_n(d.utm, TableTopUtm)
    IN  [i \in 1..Len(top) |->
            <<OrDefault(top[i].Source, "Direct"), OrDefault(top[i].Medium, "-"),
              OrDefault(top[i].Content, "-"), top[i].Orders, top[i].Revenue,
              top[i].Tickets>>]

html_content(d) ==
    [stats |-> d.summary,
     table |-> UtmTable(d),
     dates |-> DailyDates(d),
     amounts |-> DailyRevenue(d),
     tickets |-> DailyTickets(d),
     labels |-> UtmLabels(d),
     values |-> UtmValues(d)]

NoContent ==
    [stats |-> Summary(<<>>), table |-> <<>>, dates |-> <<>>, amounts |-> <<>>,
     tickets |-> <<>>, labels |-> <<>>, values |-> <<>>]

-----------------------------------------------------------------------------
(* The input files of the model *)

Row(order, paid, tickets, ts, triple, campaign) ==
    [Order |-> order, Paid |-> paid, Tickets |-> tickets, PaymentDate |-> ts,
     utm_source |-> triple[1], utm_medium |-> triple[2],
     utm_content |-> triple[3], utm_campaign |-> campaign]

FilesOf(R, n) == UNION {[1..k -> R] : k \in 0..n}

Readable(rows) == [ok |-> TRUE, rows |-> rows]
Unreadable == [ok |-> FALSE, rows |-> <<>>]

Instagram == <<"instagram", "social", "story">>

\* Files whose rows differ in amount, ticket count and payment time
DateRows ==
    {Row("A001", paid, tickets, ts, Instagram, "launch") :
        paid \in 0..MaxPaid, tickets \in 0..1,
        ts \in {<<1, 9>>, <<1, 23>>, <<2, 0>>}}

\* Files whose rows differ in amount and attribution, some of it missing
AttributionTriples ==
    { Instagram, <<"facebook", "social", "story">>, <<NaN, "social", "story">>,
      <<"instagram", NaN, "story">>, <<"instagram", "social", NaN>>,
      <<NaN, NaN, NaN>> }
CampaignOf(triple) ==
    IF isna(triple[1]) THEN NaN
    ELSE IF triple[1] = "facebook" THEN "newsletter" ELSE "launch"
AttributionRows ==
    {Row("A001", paid, 1, <<1, 9>>, triple, CampaignOf(triple)) :
        paid \in 0..MaxPaid, triple \in AttributionTriples}

\* Files whose rows differ in order identifier, amount and ticket count
Offers == {<<30, 1>>, <<50, 2>>}
OrderRows ==
    {Row(order, offer[1], offer[2], <<1, 9>>, Instagram, "launch") :
        order \in {"A001", "A002", "A003"}, offer \in Offers}

\* A file of many days and many attribution triples: row i is paid i, on
\* day (i mod days), from source (i mod triples)
Sources ==
    << "direct", "email", "facebook", "google", "instagram", "newsletter",
       "tiktok", "twitter", "whatsapp" >>
WideFile(days, triples) ==
    [i \in 1..Max(days, triples) |->
        Row("A001", i, 1, <<IF days = 0 THEN 1 ELSE ((i - 1) % days) + 1, 9>>,
            <<IF triples = 0 THEN NaN
              ELSE Sources[(((i - 1) % triples) % Len(Sources)) + 1],
              "social", "story">>,
            "launch")]

-----------------------------------------------------------------------------
(* The run *)

new_file == argv[2]
old_file == IF Len(argv) > 2 THEN Some(argv[3]) ELSE None

Start(args, files, page) ==
    /\ argv = args
    /\ disk = files
    /\ pc = "start"
    /\ reads = <<>>
    /\ data = None
    /\ comparison = None
    /\ stdout = <<>>
    /\ html = [state |-> page, content |-> NoContent]
    /\ exit_code = None

SingleFile(content) == "new.xlsx" :> content @@ "old.xlsx" :> Unreadable

InitDates ==
    \E f \in {Readable(rows) : rows \in FilesOf(DateRows, MaxRows)} \cup {Unreadable},
       page \in {"absent", "previous"} :
        Start(<<"analytics.py", "new.xlsx">>, SingleFile(f), page)

InitAttribution ==
    \E rows \in FilesOf(AttributionRows, MaxRows) :
        Start(<<"analytics.py", "new.xlsx">>, SingleFile(Readable(rows)), "previous")

InitCompare ==
    \E old, new \in {Readable(rows) : rows \in FilesOf(OrderRows, MaxRows)}
                        \cup {Unreadable} :
        Start(<<"analytics.py", "new.xlsx", "old.xlsx">>,
              "new.xlsx" :> new @@ "old.xlsx" :> old, "previous")

InitWide ==
    \E days \in 0..MaxDays, triples \in 0..MaxTriples,
       args \in {<<"analytics.py">>, <<"analytics.py", "new.xlsx">>,
                 <<"analytics.py", "new.xlsx", "old.xlsx">>},
       page \in {"absent", "previous"} :
        Start(args,
              "new.xlsx" :> Readable(WideFile(days, triples))
                  @@ "old.xlsx" :> Readable(WideFile(1, 1)),
              page)

Init == InitDates \/ InitAttribution \/ InitCompare \/ InitWide

\* An uncaught exception: the traceback goes to stderr, the status is 1
Abort ==
    /\ pc' = "aborted"
    /\ exit_code' = Some(1)

\* the usage exit with status 0
Main_Usage_ExitZero ==
    /\ pc = "start"
    /\ Len(argv) < 2
    /\ stdout' = Append(stdout, [kind |-> "usage", lines |-> <<>>])
    /\ pc' = "usage"
    /\ exit_code' = Some(0)
    /\ UNCHANGED <<argv, disk, reads, data, comparison, html>>

\* if len(sys.argv) < 2: print the usage line and sys.exit(1)
Main_Usage ==
    /\ pc = "start"
    /\ Len(argv) < 2
    /\ stdout' = Append(stdout, [kind |-> "usage", lines |-> <<>>])
    /\ pc' = "usage"
    /\ exit_code' = Some(1)
    /\ UNCHANGED <<argv, disk, reads, data, comparison, html>>

\* comparison, data = compare_files(old_file, new_file)
Main_Compare ==
    /\ pc = "start"
    /\ Len(argv) >= 2
    /\ old_file # None
    /\ LET old == disk[old_file[1]]
           new == disk[new_file]
       IN  IF ~old.ok
           THEN /\ reads' = reads \o <<old_file[1]>>
                /\ Abort
                /\ UNCHANGED <<data, comparison>>
           ELSE IF ~new.ok
           THEN /\ reads' = reads \o <<old_file[1], new_file>>
                /\ Abort
                /\ UNCHANGED <<data, comparison>>
           ELSE /\ reads' = reads \o <<old_file[1], new_file, old_file[1], new_file>>
                /\ \E new_orders \in ListsOf(NewSalesOrders(old.rows, new.rows)) :
                       comparison' = Some(Comparison(old.rows, new.rows, new_orders))
                /\ data' = Some(analyze_sales(new.rows))
                /\ pc' = "report"
                /\ UNCHANGED exit_code
    /\ UNCHANGED <<argv, disk, stdout, html>>

\* the single-file branch printing a progress line before it reads the file
Main_Analyze_PrintFirst ==
    /\ pc = "start"
    /\ Len(argv) >= 2
    /\ old_file = None
    /\ reads' = Append(reads, new_file)
    /\ stdout' = Append(stdout, [kind |-> "progress", lines |-> <<>>])
    /\ IF disk[new_file].ok
       THEN /\ data' = Some(analyze_sales(disk[new_file].rows))
            /\ pc' = "report"
            /\ UNCHANGED exit_code
       ELSE /\ Abort
            /\ UNCHANGED data
    /\ UNCHANGED <<argv, disk, comparison, html>>

\* data = analyze_sales(new_file)
Main_Analyze ==
    /\ pc = "start"
    /\ Len(argv) >= 2
    /\ old_file = None
    /\ reads' = Append(reads, new_file)
    /\ IF disk[new_file].ok
       THEN /\ data' = Some(analyze_sales(disk[new_file].rows))
            /\ pc' = "report"
            /\ UNCHANGED exit_code
       ELSE /\ Abort
            /\ UNCHANGED data
    /\ UNCHANGED <<argv, disk, comparison, stdout, html>>

\* the report step with the HTML update outside the else branch
Main_PrintReport_AlwaysHtml ==
    /\ pc = "report"
    /\ stdout' = Append(stdout, [kind |-> "report",
                                 lines |-> generate_report(data[1], comparison)])
    /\ pc' = "html_open"
    /\ UNCHANGED <<argv, disk, reads, data, comparison, html, exit_code>>

\* print(generate_report(data, comparison)) / print(generate_report(data))
Main_PrintReport ==
    /\ pc = "report"
    /\ stdout' = Append(stdout, [kind |-> "report",
                                 lines |-> generate_report(data[1], comparison)])
    /\ IF old_file # None
       THEN pc' = "done" /\ exit_code' = Some(0)
       ELSE pc' = "html_open" /\ UNCHANGED exit_code
    /\ UNCHANGED <<argv, disk, reads, data, comparison, html>>

\* open(output_path, 'w', encoding='utf-8'): creates or truncates the file,
\* or raises and leaves it alone
Html_Open ==
    /\ pc = "html_open"
    /\ \/ /\ html' = [state |-> "empty", content |-> NoContent]
          /\ pc' = "html_write"
          /\ UNCHANGED exit_code
       \/ /\ Abort
          /\ UNCHANGED html
    /\ UNCHANGED <<argv, disk, reads, data, comparison, stdout>>

\* f.write(html_content) and the close of the with block: the whole document
\* reaches the file, or the write raises with none or part of it written
Html_Write ==
    /\ pc = "html_write"
    /\ \/ /\ html' = [state |-> "complete", content |-> html_content(data[1])]
          /\ pc' = "confirm"
          /\ UNCHANGED exit_code
       \/ /\ \E st \in {"empty", "partial"} :
                 html' = [state |-> st, content |-> NoContent]
          /\ Abort
    /\ UNCHANGED <<argv, disk, reads, data, comparison, stdout>>

\* print("... Dashboard HTML atualizado: index.html")
Main_Confirm ==
    /\ pc = "confirm"
    /\ stdout' = Append(stdout, [kind |-> "confirm", lines |-> <<>>])
    /\ pc' = "done"
    /\ exit_code' = Some(0)
    /\ UNCHANGED <<argv, disk, reads, data, comparison, html>>

Next ==
    \/ Main_Usage
    \/ Main_Compare
    \/ Main_Analyze
    \/ Main_PrintReport
    \/ Html_Open
    \/ Html_Write
    \/ Main_Confirm

Spec == Init /\ [][Next]_vars

-----------------------------------------------------------------------------
(* Properties *)

TypeOK ==
    /\ pc \in {"start", "usage", "report", "html_open", "html_write",
               "confirm", "done", "aborted"}
    /\ Len(data) <= 1
    /\ Len(comparison) <= 1
    /\ html.state \in {"absent", "previous", "empty", "partial", "complete"}

Revenues(rollup) == Column(rollup, "Revenue")
Unwritten == html.state \in {"absent", "previous"}
Kinds(out) == Column(out, "kind")

\* C1: for a non-empty file, the revenues of the daily rollup add up to
\* summary.total_sales, and every record belongs to exactly one daily entry:
\* the entries' order counts add up to the number of records.
C1_DailyPartition ==
    (data # None /\ data[1].raw_data # <<>>) =>
        LET d == data[1]
        IN  /\ SumSeq(Revenues(d.daily)) = d.summary.total_sales
            /\ SumSeq(Column(d.daily, "Orders")) = Len(d.raw_data)
            /\ \A i \in 1..Len(d.raw_data) :
                   Cardinality({p \in 1..Len(d.daily) :
                                   d.daily[p].Date = d.raw_data[i].Date}) = 1

\* two records of one day, paid at different hours, with money in them
C1_Witness ==
    /\ data # None
    /\ Len(data[1].raw_data) = 2
    /\ Len(data[1].daily) = 1
    /\ data[1].raw_data[1].PaymentDate # data[1].raw_data[2].PaymentDate
    /\ data[1].raw_data[1].Paid > 0
    /\ data[1].raw_data[2].Paid > 0

\* C2: for a non-empty file, the revenues of the attribution rollup add up to
\* summary.total_sales, also when some record has no source, medium or
\* content.
C2_AttributionPartition ==
    (data # None /\ data[1].raw_data # <<>>) =>
        SumSeq(Revenues(data[1].utm)) = data[1].summary.total_sales

\* C3 as stated: an aborted run has written nothing, a completed run has
\* written everything.
C3_AllOrNothing ==
    /\ pc = "aborted" => (stdout = <<>> /\ Unwritten)
    /\ pc = "done" =>
           /\ "report" \in {stdout[i].kind : i \in 1..Len(stdout)}
           /\ old_file = None => html.state = "complete"

\* C3 amended: a run that aborts before it has an aggregate structure has
\* written nothing; a run that aborts later is a single-file run that had
\* printed its whole report and failed on index.html, which is then
\* untouched, empty or partly written; a completed run has written
\* everything.
C3_AbortOutputs ==
    /\ (pc = "aborted" /\ data = None) => (stdout = <<>> /\ Unwritten)
    /\ (pc = "aborted" /\ data # None) =>
           /\ old_file = None
           /\ Kinds(stdout) = <<"report">>
           /\ html.state # "complete"
    /\ pc = "done" =>
           /\ "report" \in {stdout[i].kind : i \in 1..Len(stdout)}
           /\ old_file = None => html.state = "complete"

\* the write of index.html failed half way, after the report was printed
C3_Witness ==
    /\ pc = "aborted"
    /\ Kinds(stdout) = <<"report">>
    /\ html.state = "partial"

\* C4: new_orders is, as a set, the identifiers of the new file that are
\* not in the old file, and the three deltas are the new totals minus the
\* old totals, whatever their sign.
C4_Compare ==
    comparison # None =>
        LET c == comparison[1]
            old == disk[old_file[1]].rows
            new == disk[new_file].rows
            In(id, rows) == \E i \in 1..Len(rows) : rows[i].Order = id
            ids == {old[i].Order : i \in 1..Len(old)}
                       \cup {new[i].Order : i \in 1..Len(new)}
                       \cup {c.new_orders[i] : i \in 1..Len(c.new_orders)}
        IN  /\ \A id \in ids :
                   (\E i \in 1..Len(c.new_orders) : c.new_orders[i] = id)
                       <=> (In(id, new) /\ ~In(id, old))
            /\ \A i, j \in 1..Len(c.new_orders) :
                   c.new_orders[i] = c.new_orders[j] => i = j
            /\ c.new_summary = data[1].summary
            /\ c.old_summary.total_sales = SumSeq(Column(old, "Paid"))
            /\ c.old_summary.total_tickets = SumSeq(Column(old, "Tickets"))
            /\ c.old_summary.total_orders = Len(old)
            /\ c.sales_diff =
                   c.new_summary.total_sales - c.old_summary.total_sales
            /\ c.tickets_diff =
                   c.new_summary.total_tickets - c.old_summary.total_tickets
            /\ c.orders_diff =
                   c.new_summary.total_orders - c.old_summary.total_orders

\* the new file sold less than the old one and has an order the old lacks
C4_Witness ==
    /\ comparison # None
    /\ comparison[1].sales_diff < 0
    /\ comparison[1].orders_diff < 0
    /\ comparison[1].new_orders # <<>>

\* C5: the attribution rollup is sorted by revenue, non-increasing: every
\* entry's revenue is at least the next entry's.
C5_UtmSorted ==
    data # None =>
        \A i \in 1..(Len(data[1].utm) - 1) :
            data[1].utm[i].Revenue >= data[1].utm[i + 1].Revenue

\* two groups whose key order is the reverse of their revenue order
C5_Witness ==
    /\ data # None
    /\ Len(data[1].utm) = 2
    /\ data[1].utm[1].Source = "instagram"
    /\ data[1].utm[2].Source = "facebook"
    /\ data[1].utm[1].Revenue > data[1].utm[2].Revenue

\* C6: avg_ticket is total_sales / total_tickets when total_tickets is not
\* zero and exactly 0 when it is zero, and it is never a division by zero.
C6_AvgTicket ==
    data # None =>
        LET s == data[1].summary
        IN  /\ s.avg_ticket.den # 0
            /\ s.total_tickets # 0 =>
                   s.avg_ticket.num * s.total_tickets
                       = s.total_sales * s.avg_ticket.den
            /\ s.total_tickets = 0 => s.avg_ticket.num = 0

\* paid rows that carry no ticket at all
C6_Witness ==
    /\ data # None
    /\ data[1].raw_data # <<>>
    /\ data[1].summary.total_tickets = 0
    /\ data[1].summary.total_sales > 0

\* C7: without a path argument the run prints the usage line and exits
\* with status 1, and nothing else ever happens: no file is read, no
\* aggregate computed, no report printed, index.html not touched.
C7_Usage ==
    Len(argv) < 2 =>
        /\ pc \in {"start", "usage"}
        /\ reads = <<>>
        /\ data = None
        /\ comparison = None
        /\ Unwritten
        /\ pc = "start" => (stdout = <<>> /\ exit_code = None)
        /\ pc = "usage" => (Kinds(stdout) = <<"usage">> /\ exit_code = Some(1))

C7_Witness == Len(argv) < 2 /\ pc = "usage"

\* C8 as stated: the written page embeds min(5, m) daily entries and
\* min(5, n) attribution sources.
C8_HtmlTopFive ==
    html.state = "complete" =>
        LET c == html.content
            m == Min(ChartTopUtm, Len(data[1].daily))
            n == Min(ChartTopUtm, Len(data[1].utm))
        IN  /\ Len(c.dates) = m /\ Len(c.amounts) = m /\ Len(c.tickets) = m
            /\ Len(c.labels) = n /\ Len(c.values) = n

\* C8 amended: the written page embeds every daily entry (the three daily
\* arrays have the length of the daily rollup) and the first min(5, n)
\* attribution sources.
C8_HtmlArrays ==
    html.state = "complete" =>
        LET c == html.content
            d == data[1]
            n == Min(ChartTopUtm, Len(d.utm))
        IN  /\ Len(c.dates) = Len(d.daily)
            /\ Len(c.amounts) = Len(d.daily)
            /\ Len(c.tickets) = Len(d.daily)
            /\ \A i \in 1..Len(d.daily) :
                   /\ c.dates[i].iso = d.daily[i].Date
                   /\ c.amounts[i] = d.daily[i].Revenue
                   /\ c.tickets[i] = d.daily[i].Tickets
            /\ Len(c.labels) = n /\ Len(c.values) = n
            /\ \A i \in 1..n :
                   /\ c.labels[i] = d.utm[i].Source
                   /\ c.values[i] = d.utm[i].Revenue

\* a page written from more than five days and more than five sources
C8_Witness ==
    /\ html.state = "complete"
    /\ Len(data[1].daily) > ChartTopUtm
    /\ Len(data[1].utm) > ChartTopUtm

\* the section names of a report, in order, each once
Sections(lines) ==
    LET starts == {i \in 1..Len(lines) :
                      i = 1 \/ lines[i].section # lines[i - 1].section}
        order == SortedInts(starts)
    IN  [k \in 1..Len(order) |-> lines[order[k]].section]

EntriesOf(lines, section, kind) ==
    SelectSeq(lines, LAMBDA l : l.section = section /\ l.kind = kind)

\* C9: every printed report has its sections in the order banner, summary,
\* comparison, attribution, daily; the comparison block is there exactly
\* when a comparison was made; the attribution section lists the first
\* min(5, n) rollup entries in rollup order and the daily section the last
\* min(7, m) daily entries in date order.
C9_ReportLayout ==
    \A r \in 1..Len(stdout) :
        stdout[r].kind = "report" =>
            LET lines == stdout[r].lines
                d == data[1]
                n == Min(ReportTopUtm, Len(d.utm))
                m == Min(ReportLastDays, Len(d.daily))
                utm == EntriesOf(lines, "utm", "entry")
                totals == EntriesOf(lines, "utm", "totals")
                daily == EntriesOf(lines, "daily", "entry")
            IN  /\ Sections(lines) =
                       <<"banner", "summary">>
                           \o (IF comparison # None THEN <<"comparison">> ELSE <<>>)
                           \o <<"utm", "daily", "footer">>
                /\ Len(utm) = n /\ Len(totals) = n
                /\ \A i \in 1..n :
                       /\ utm[i].vals = <<i, d.utm[i].Source, d.utm[i].Medium,
                                          d.utm[i].Content>>
                       /\ totals[i].vals[1] = d.utm[i].Revenue
                /\ Len(daily) = m
                /\ \A k \in 1..m :
                       LET e == d.daily[Len(d.daily) - m + k]
                       IN  daily[k].vals = <<e.Date, e.Revenue, e.Tickets>>
                /\ \A k \in 1..(m - 1) : daily[k].vals[1] < daily[k + 1].vals[1]

\* a report with a comparison, from more than five sources and more than
\* seven days
C9_Witness ==
    /\ Len(stdout) = 1
    /\ stdout[1].kind = "report"
    /\ comparison # None
    /\ Len(data[1].utm) > ReportTopUtm
    /\ Len(data[1].daily) > ReportLastDays

\* C10: index.html changes only in a single-file run and only after the
\* report was printed; a comparison run reads both files, prints one report
\* with the comparison block and ends with index.html as it was; a
\* single-file run ends with the report, then the written page, then the
\* confirmation line.
C10_HtmlOnlySingleFile ==
    /\ [][html' # html =>
              /\ Len(argv) = 2
              /\ Kinds(stdout) = <<"report">>
              /\ stdout' = stdout]_vars
    /\ []((pc = "done" /\ Len(argv) > 2) =>
              /\ {reads[i] : i \in 1..Len(reads)} = {"new.xlsx", "old.xlsx"}
              /\ Kinds(stdout) = <<"report">>
              /\ "comparison" \in {stdout[1].lines[i].section :
                                      i \in 1..Len(stdout[1].lines)}
              /\ Unwritten)
    /\ []((pc = "done" /\ Len(argv) = 2) =>
              /\ Kinds(stdout) = <<"report", "confirm">>
              /\ html.state = "complete")

\* a comparison run that ended with the earlier page still in place
C10_Witness ==
    /\ pc = "done"
    /\ Len(argv) > 2
    /\ Kinds(stdout) = <<"report">>
    /\ html.state = "previous"
====
